---- MODULE Spec2Model ----
(***************************************************************************)
(* Model of webauth: the Session entity, the in-memory Store, and the two  *)
(* tower services SessionManager and UserManager.                          *)
(*                                                                         *)
(* A Session value is a handle [uid, expires_at, ref]: uid and expires_at  *)
(* are plain fields copied by Clone, while `data` and `modified` are Arc   *)
(* pointers, so every clone of a Session shares one heap cell `ref`.       *)
(***************************************************************************)
EXTENDS Integers, Sequences, FiniteSets, TLC

(* ---------------------------- bounds ----------------------------------- *)
NumReq == 2          \* request slots handled concurrently
MaxArrivals == 2     \* requests received in one behaviour
MaxOps == 1          \* Session operations one handler invocation performs
MaxTime == 2         \* clock ticks (one tick = one expiration period)
MaxCycles == 2       \* cycle_uid calls made on the Session under test

(* ------------------------ program constants ---------------------------- *)
DEFAULT_EXPIRATION == 1

Req == 1..NumReq
Keys == {"user_uid"}
Types == {"Uuid", "u64"}
UserIds == {1}

(* ------------------------------ Option --------------------------------- *)
None == [some |-> FALSE]
Some(x) == [some |-> TRUE, val |-> x]

(* --------------------- strings, uuids, JSON values --------------------- *)
\* A string is either the hyphenated form of a uuid or some other text.
UuidToString(u) == [uuid |-> TRUE, n |-> u]
JunkString == [uuid |-> FALSE, n |-> 0]

\* str::parse::<Uuid>
ParseUuid(s) == IF s.uuid THEN Some(s.n) ELSE None

\* serde_json::to_value: a Uuid serialises to a JSON string, a u64 to a number
to_value(ty, v) ==
    IF ty = "Uuid" THEN [kind |-> "String", s |-> UuidToString(v), n |-> 0]
    ELSE [kind |-> "Number", s |-> JunkString, n |-> v]

\* serde_json::from_value::<T>: Some(v) on success, None on a serde error
from_value(ty, json) ==
    IF ty = "Uuid"
    THEN IF json.kind = "String" THEN ParseUuid(json.s) ELSE None
    ELSE IF json.kind = "Number" THEN Some(json.n) ELSE None

RustValues == { <<"Uuid", 1>>, <<"u64", 1>> }

VARIABLES
    now,        \* SystemTime::now()
    nextUid,    \* the next value Uuid::new_v4() returns
    nextRef,    \* the next heap cell Arc::new allocates
    data,       \* heap: ref -> HashMap<String, Value>
    modified,   \* heap: ref -> AtomicBool
    objects,    \* session Store: HashMap<Uuid, Session>
    users,      \* user Store: the ids that resolve to a user
    arrivals,   \* requests received so far
    req,        \* per slot: the request, the future's locals, the response
    test        \* mod tests: the Session under test and the last call made on it

vars == <<now, nextUid, nextRef, data, modified, objects, users, arrivals, req, test>>

(* ------------------------------ HashMap -------------------------------- *)
EmptyMap == [k \in {} |-> 0]
MapRemove(m, key) == [k \in (DOMAIN m) \ {key} |-> m[k]]
MapInsert(m, key, v) == [k \in (DOMAIN m) \cup {key} |-> IF k = key THEN v ELSE m[k]]

(* ------------------------------ Session -------------------------------- *)
\* Uuid::new_v4(): a uuid that was never seen before
new_v4 == nextUid

\* Session::new: a fresh uid, fresh Arcs; the caller installs the heap cell
Session_new(uid, ref, t) ==
    [uid |-> uid, expires_at |-> t + DEFAULT_EXPIRATION, ref |-> ref]

Session_new_cell_Unmodified == [data |-> EmptyMap, modified |-> FALSE]

Session_new_cell_NotEmpty ==
    [data |-> [k \in {"user_uid"} |-> to_value("u64", 0)], modified |-> TRUE]

\* The two Arcs of Session::new: an empty map, and `modified` set to true
Session_new_cell == [data |-> EmptyMap, modified |-> TRUE]

\* #[derive(Clone)]: uid and expires_at are copied, the Arcs are shared
Session_clone(s) == [uid |-> s.uid, expires_at |-> s.expires_at, ref |-> s.ref]

is_modified(mod, s) == mod[s.ref]

\* Session::get::<T>: [err, val]
Session_get(d, s, key, ty) ==
    IF key \in DOMAIN d[s.ref]
    THEN LET r == from_value(ty, d[s.ref][key])
         IN  [err |-> ~r.some, val |-> r]
    ELSE [err |-> FALSE, val |-> None]


Session_insert_Lost(d, s, key, ty, v) == d

Session_insert_KeepsExisting(d, s, key, ty, v) ==
    IF key \in DOMAIN d[s.ref] THEN d
    ELSE [d EXCEPT ![s.ref] = MapInsert(@, key, to_value(ty, v))]

\* Session::insert: map.insert(key, to_value(value)); the caller stores `modified`
Session_insert(d, s, key, ty, v) ==
    [d EXCEPT ![s.ref] = MapInsert(@, key, to_value(ty, v))]

\* Session::remove::<T>: the entry leaves the map before it is decoded, and
\* `modified` is stored only when the decode gave Ok(Some(_))
Session_remove(d, mod, s, key, ty) ==
    IF key \in DOMAIN d[s.ref]
    THEN LET res == from_value(ty, d[s.ref][key])
         IN  [data |-> [d EXCEPT ![s.ref] = MapRemove(@, key)],
              modified |-> IF res.some THEN [mod EXCEPT ![s.ref] = TRUE] ELSE mod,
              err |-> ~res.some, val |-> res]
    ELSE [data |-> d, modified |-> mod, err |-> FALSE, val |-> None]

Session_clear_ResetsFlag(d, mod, s) ==
    [data |-> [d EXCEPT ![s.ref] = EmptyMap],
     modified |-> [mod EXCEPT ![s.ref] = FALSE]]

Session_clear_FlagOnlyIfEmptied(d, mod, s) ==
    [data |-> [d EXCEPT ![s.ref] = EmptyMap],
     modified |-> IF d[s.ref] = EmptyMap THEN mod ELSE [mod EXCEPT ![s.ref] = TRUE]]

\* Session::clear: the map is emptied and `modified` is stored, whatever they were
Session_clear(d, mod, s) ==
    [data |-> [d EXCEPT ![s.ref] = EmptyMap],
     modified |-> [mod EXCEPT ![s.ref] = TRUE]]

Session_cycle_uid_KeepsUid(s, uid) == s

\* Session::cycle_uid: only the receiver's own uid field changes
Session_cycle_uid(s, uid) == [s EXCEPT !.uid = uid]

(* ------------------------------- Store --------------------------------- *)
load_IgnoringExpiry(objs, id, t) ==
    IF id \in DOMAIN objs THEN Some([uid |-> objs[id].uid, expires_at |-> objs[id].expires_at,
                                     ref |-> objs[id].ref])
    ELSE None

load_ExpiredAtDeadline(objs, id, t) ==
    IF id \in DOMAIN objs /\ ~(objs[id].expires_at <= t)
    THEN Some([uid |-> objs[id].uid, expires_at |-> objs[id].expires_at,
               ref |-> objs[id].ref])
    ELSE None

\* Store::load of the in-memory store, with the Session expiry special case
load(objs, id, t) ==
    IF id \in DOMAIN objs /\ ~(objs[id].expires_at < t)
    THEN Some(Session_clone(objs[id]))
    ELSE None

save_Renewing(objs, id, obj) ==
    [k \in (DOMAIN objs) \cup {id} |->
        IF k = id THEN [uid |-> obj.uid, expires_at |-> obj.expires_at + DEFAULT_EXPIRATION,
                        ref |-> obj.ref]
        ELSE objs[k]]

\* Store::save: map.insert(*id, obj.clone())
save(objs, id, obj) ==
    [k \in (DOMAIN objs) \cup {id} |-> IF k = id THEN Session_clone(obj) ELSE objs[k]]

\* Store::delete: map.remove(id)
delete(objs, id) == [k \in (DOMAIN objs) \ {id} |-> objs[k]]

(* ------------------------------ requests ------------------------------- *)
INTERNAL_SERVER_ERROR == 500
UNAUTHORIZED == 401

\* A slot before a request arrives.  The fields after `user` record what the
\* request's future has done so far and the response it returned.
IdleReq ==
    [pc |-> "idle", stack |-> "SessionManagerLayer", jar |-> FALSE,
     cookie |-> None, session |-> None, ext |-> None, user |-> None,
     user_uid |-> None, umGet |-> "none", umLoad |-> "none",
     loadCalls |-> 0, saveCalls |-> 0,
     loaded |-> "none", saved |-> "none", savedUnder |-> None, freshUid |-> None,
     downstream |-> FALSE, attached |-> 0, bypass |-> FALSE,
     handlerCalled |-> FALSE, read |-> FALSE, nops |-> 0, nmuts |-> 0, cycled |-> FALSE,
     lastMut |-> [op |-> "none", key |-> "", ty |-> "", v |-> 0],
     status |-> 0, from |-> "none", err |-> FALSE, setCookie |-> None, cookieAdds |-> 0]

\* No test has created its Session yet.
NoTest == [session |-> None, op |-> "none", key |-> "", ty |-> "", v |-> 0,
           pre |-> None, out |-> [err |-> FALSE, val |-> None], saved |-> None]

Init ==
    /\ now = 0
    /\ nextUid = 1
    /\ nextRef = 1
    /\ data = <<>>
    /\ modified = <<>>
    /\ objects = EmptyMap
    /\ users = {}
    /\ arrivals = 0
    /\ req = [r \in Req |-> IdleReq]
    /\ test = NoTest

Set(r, f) == req' = [req EXCEPT ![r] = f]

\* The stage SessionManager wraps: the handler itself, or (UserManagerLayer::layer)
\* a UserManager in front of it.
Inner(stack) == IF stack = "UserManagerLayer" THEN "um_call" ELSE "handler"

\* SessionManagerLayer::layer wraps the manager in a CookieManager, which puts
\* the Cookies jar into the request extensions; UserManagerLayer::layer does not.
LayerProvidesJar(stack) == stack = "SessionManagerLayer"

\* What a client may send: no cookie, text that is no uuid, a uuid the server
\* never stored (ForgedUid), or the id of a stored record.
ForgedUids == {0}
CookieValues ==
    {None, Some(JunkString)} \cup { Some(UuidToString(u)) : u \in ForgedUids \cup DOMAIN objects }

(* ---------------------- environment: time, clients --------------------- *)
InFlight == { q \in Req : req[q].pc \notin {"idle", "done"} }

\* Only differences of times are ever compared, so the clock is started by the
\* first Session::new.
Tick ==
    /\ nextRef > 1
    /\ now < MaxTime
    /\ now' = now + 1
    /\ UNCHANGED <<nextUid, nextRef, data, modified, objects, users, arrivals, req, test>>

\* A request reaches the service stack built by one of the two layers and is
\* handled by the first task that is free.
Receive(r) ==
    /\ req[r].pc \in {"idle", "done"}
    /\ \A q \in Req : q < r => req[q].pc \notin {"idle", "done"}
    /\ arrivals < MaxArrivals
    /\ arrivals' = arrivals + 1
    /\ \E stack \in {"SessionManagerLayer", "UserManagerLayer"}, outerJar \in BOOLEAN, c \in CookieValues :
          LET jar == LayerProvidesJar(stack) \/ outerJar
          IN  /\ (LayerProvidesJar(stack) => outerJar)
              /\ (~jar => c = None)
              /\ Set(r, [IdleReq EXCEPT !.pc = "sm_call", !.stack = stack,
                                        !.jar = jar, !.cookie = c])
    /\ UNCHANGED <<now, nextUid, nextRef, data, modified, objects, users, test>>

\* A request arrives while no other one is being handled.
Arrive(r) == InFlight = {} /\ Receive(r)

\* A request arrives while another one is being handled.
ArriveConcurrent(r) == InFlight # {} /\ Receive(r)

\* The application saves a user in the user Store.
UserStore_save(u) ==
    /\ u \notin users
    /\ users' = users \cup {u}
    /\ UNCHANGED <<now, nextUid, nextRef, data, modified, objects, arrivals, req, test>>

(* --------------------------- SessionManager ---------------------------- *)
session_uid_NilOnParseError(cookie) ==
    IF cookie.some
    THEN IF cookie.val.uuid THEN Some(cookie.val.n) ELSE Some(0)
    ELSE None

\* cookies.get(cookie_name).and_then(|c| c.value().parse::<Uuid>().ok())
session_uid(cookie) == IF cookie.some THEN ParseUuid(cookie.val) ELSE None

\* line 210: the key of store.save is session.uid() of the future's own copy
SaveId(s) == s.uid

CookieFor_NotTheUid(s) == JunkString

\* line 220: Cookie::new(cookie_name, session.uid().to_string())
CookieFor(s) == UuidToString(s.uid)

OnLoadError_StatusNotSet(q) ==
    [q EXCEPT !.status = 200, !.from = "SessionManager", !.pc = "done"]

\* lines 191-197: the load failed; a default response with status 500 is returned
OnLoadError(q) ==
    [q EXCEPT !.status = INTERNAL_SERVER_ERROR, !.from = "SessionManager", !.pc = "done"]

OnSaveError_KeepResponse(q) == [q EXCEPT !.pc = "done"]

OnSaveError_Retry(q) == [q EXCEPT !.pc = "sm_after"]

\* lines 210-217: the save failed; the downstream response is dropped for a
\* default one with status 500, and cookies.add is not reached
OnSaveError(q) ==
    [q EXCEPT !.status = INTERNAL_SERVER_ERROR, !.from = "SessionManager", !.pc = "done"]

AttachFresh_UnderCookieId(r, loaded) ==
    LET id == IF session_uid(req[r].cookie).some THEN session_uid(req[r].cookie).val
              ELSE new_v4
        s == Session_new(id, nextRef, now)
    IN  /\ nextUid' = nextUid + 1
        /\ nextRef' = nextRef + 1
        /\ data' = data @@ (nextRef :> Session_new_cell.data)
        /\ modified' = modified @@ (nextRef :> Session_new_cell.modified)
        /\ Set(r, [req[r] EXCEPT !.session = Some(s), !.ext = Some(Session_clone(s)),
                                 !.freshUid = Some(s.uid), !.loaded = loaded,
                                 !.loadCalls = @ + (IF loaded = "none" THEN 0 ELSE 1),
                                 !.attached = 1, !.downstream = TRUE,
                                 !.handlerCalled = Inner(req[r].stack) = "handler",
                                 !.pc = Inner(req[r].stack)])

\* Session::new(DEFAULT_EXPIRATION) followed by lines 203-206: the session is
\* cloned into the request extensions and the inner service is called.
AttachFresh(r, loaded) ==
    LET s == Session_new(new_v4, nextRef, now)
    IN  /\ nextUid' = nextUid + 1
        /\ nextRef' = nextRef + 1
        /\ data' = data @@ (nextRef :> Session_new_cell.data)
        /\ modified' = modified @@ (nextRef :> Session_new_cell.modified)
        /\ Set(r, [req[r] EXCEPT !.session = Some(s), !.ext = Some(Session_clone(s)),
                                 !.freshUid = Some(s.uid), !.loaded = loaded,
                                 !.loadCalls = @ + (IF loaded = "none" THEN 0 ELSE 1),
                                 !.attached = 1, !.downstream = TRUE,
                                 !.handlerCalled = Inner(req[r].stack) = "handler",
                                 !.pc = Inner(req[r].stack)])

\* SessionManager::call up to its first await (lines 162-187 and 200-206).
SM_call(r) ==
    /\ req[r].pc = "sm_call"
    /\ IF ~req[r].jar
       THEN \* no Cookies in the extensions: `return inner.call(req).await`
            /\ Set(r, [req[r] EXCEPT !.bypass = TRUE, !.downstream = TRUE,
                                     !.attached = 0, !.pc = Inner(req[r].stack)])
            /\ UNCHANGED <<nextUid, nextRef, data, modified>>
       ELSE IF session_uid(req[r].cookie).some
       THEN /\ Set(r, [req[r] EXCEPT !.pc = "sm_load"])
            /\ UNCHANGED <<nextUid, nextRef, data, modified>>
       ELSE AttachFresh(r, "none")
    /\ UNCHANGED <<now, objects, users, arrivals, test>>

\* store.load(&suid).await and what follows it (lines 187-206).  The Store trait
\* lets a backend fail; the in-memory backend never does.
SM_load(r) ==
    /\ req[r].pc = "sm_load"
    /\ \E outcome \in {"ok", "backend"} :
         IF outcome = "backend"
         THEN /\ Set(r, OnLoadError([req[r] EXCEPT !.loadCalls = @ + 1, !.loaded = "error"]))
              /\ UNCHANGED <<nextUid, nextRef, data, modified>>
         ELSE LET got == load(objects, session_uid(req[r].cookie).val, now)
              IN  IF got.some
                  THEN /\ Set(r, [req[r] EXCEPT !.loadCalls = @ + 1, !.loaded = "found",
                                                !.session = got,
                                                !.ext = Some(Session_clone(got.val)),
                                                !.attached = 1, !.downstream = TRUE,
                                                !.handlerCalled = Inner(req[r].stack) = "handler",
                                                !.pc = Inner(req[r].stack)])
                       /\ UNCHANGED <<nextUid, nextRef, data, modified>>
                  ELSE AttachFresh(r, "missing")
    /\ UNCHANGED <<now, objects, users, arrivals, test>>

\* Lines 208-223, entered when inner.call(req) has resolved.  With no jar the
\* inner result was returned as it is (line 165); an inner Err leaves through `?`.
SM_finish(r) ==
    /\ req[r].pc = "sm_after"
    /\ IF req[r].bypass \/ req[r].err
       THEN /\ Set(r, [req[r] EXCEPT !.pc = "done"])
            /\ UNCHANGED objects
       ELSE IF is_modified(modified, req[r].session.val)
       THEN \E outcome \in {"ok", "backend"} :
              IF outcome = "ok"
              THEN /\ objects' = save(objects, SaveId(req[r].session.val), req[r].session.val)
                   /\ Set(r, [req[r] EXCEPT !.saveCalls = @ + 1, !.saved = "ok",
                                            !.savedUnder = Some(SaveId(req[r].session.val)),
                                            !.setCookie = Some(CookieFor(req[r].session.val)),
                                            !.cookieAdds = @ + 1,
                                            !.pc = "done"])
              ELSE /\ Set(r, OnSaveError([req[r] EXCEPT !.saveCalls = @ + 1, !.saved = "error",
                                            !.savedUnder = Some(SaveId(req[r].session.val))]))
                   /\ UNCHANGED objects
       ELSE /\ Set(r, [req[r] EXCEPT !.pc = "done"])
            /\ UNCHANGED objects
    /\ UNCHANGED <<now, nextUid, nextRef, data, modified, users, arrivals, test>>

(* ----------------------------- UserManager ----------------------------- *)
UM_return_error_CallsInner(q, code) ==
    [q EXCEPT !.user = Some(0), !.handlerCalled = TRUE, !.pc = "handler"]

UM_return_error_Unauthorized(q, code) ==
    [q EXCEPT !.status = UNAUTHORIZED, !.from = "UserManager", !.pc = "sm_after"]

\* return_error(code): Ok(response with that status), handed back to SessionManager
UM_return_error(q, code) ==
    [q EXCEPT !.status = code, !.from = "UserManager", !.pc = "sm_after"]

\* UserManager::call up to store.load (lines 76-99).  umGet and umLoad record
\* which arm of the two matches was taken.
UM_call(r) ==
    /\ req[r].pc = "um_call"
    /\ IF ~req[r].ext.some
       THEN Set(r, UM_return_error([req[r] EXCEPT !.umGet = "no_session"], UNAUTHORIZED))
       ELSE LET g == Session_get(data, req[r].ext.val, "user_uid", "Uuid")
            IN  IF g.err
                THEN Set(r, UM_return_error([req[r] EXCEPT !.umGet = "error"],
                                            INTERNAL_SERVER_ERROR))
                ELSE IF ~g.val.some
                THEN Set(r, UM_return_error([req[r] EXCEPT !.umGet = "absent"], UNAUTHORIZED))
                ELSE Set(r, [req[r] EXCEPT !.umGet = "some", !.user_uid = g.val,
                                           !.pc = "um_load"])
    /\ UNCHANGED <<now, nextUid, nextRef, data, modified, objects, users, arrivals, test>>

\* store.load(&user_uid).await and what follows it (lines 99-117)
UM_load(r) ==
    /\ req[r].pc = "um_load"
    /\ \E outcome \in {"ok", "backend"} :
         IF outcome = "backend"
         THEN Set(r, UM_return_error([req[r] EXCEPT !.umLoad = "error"], INTERNAL_SERVER_ERROR))
         ELSE IF req[r].user_uid.val \in users
         THEN Set(r, [req[r] EXCEPT !.umLoad = "found", !.user = req[r].user_uid,
                                    !.handlerCalled = TRUE, !.pc = "handler"])
         ELSE Set(r, UM_return_error([req[r] EXCEPT !.umLoad = "missing"], UNAUTHORIZED))
    /\ UNCHANGED <<now, nextUid, nextRef, data, modified, objects, users, arrivals, test>>

(* ------------------------------- handler ------------------------------- *)
\* The handler works on the Session it finds in the request extensions.
CanOp(r) ==
    /\ req[r].pc = "handler"
    /\ req[r].ext.some
    /\ req[r].nops < MaxOps

\* The record kept of the handler's mutating calls: how many, and the last one.
Did(r, call) == [req[r] EXCEPT !.nops = @ + 1,
                               !.nmuts = @ + 1, !.lastMut = call,
                               !.cycled = @ \/ call.op = "cycle_uid"]

H_insert(r, key, rv) ==
    /\ CanOp(r)
    /\ data' = Session_insert(data, req[r].ext.val, key, rv[1], rv[2])
    /\ modified' = [modified EXCEPT ![req[r].ext.val.ref] = TRUE]
    /\ Set(r, Did(r, [op |-> "insert", key |-> key, ty |-> rv[1], v |-> rv[2]]))
    /\ UNCHANGED <<now, nextUid, nextRef, objects, users, arrivals, test>>

\* get, uid, expires_at, is_modified: none of them writes anything
H_read(r, key, ty) ==
    /\ CanOp(r)
    /\ Set(r, [req[r] EXCEPT !.nops = @ + 1, !.read = TRUE])
    /\ UNCHANGED <<now, nextUid, nextRef, data, modified, objects, users, arrivals, test>>

H_remove(r, key, ty) ==
    /\ CanOp(r)
    /\ LET out == Session_remove(data, modified, req[r].ext.val, key, ty)
       IN  /\ data' = out.data
           /\ modified' = out.modified
           /\ Set(r, Did(r, [op |-> "remove", key |-> key, ty |-> "", v |-> 0]))
    /\ UNCHANGED <<now, nextUid, nextRef, objects, users, arrivals, test>>

H_clear(r) ==
    /\ CanOp(r)
    /\ data' = Session_clear(data, modified, req[r].ext.val).data
    /\ modified' = Session_clear(data, modified, req[r].ext.val).modified
    /\ Set(r, Did(r, [op |-> "clear", key |-> "", ty |-> "", v |-> 0]))
    /\ UNCHANGED <<now, nextUid, nextRef, objects, users, arrivals, test>>

H_cycle_uid(r) ==
    /\ CanOp(r)
    /\ nextUid' = nextUid + 1
    /\ modified' = [modified EXCEPT ![req[r].ext.val.ref] = TRUE]
    /\ Set(r, [Did(r, [op |-> "cycle_uid", key |-> "", ty |-> "", v |-> 0])
                 EXCEPT !.ext = Some(Session_cycle_uid(req[r].ext.val, new_v4))])
    /\ UNCHANGED <<now, nextRef, data, objects, users, arrivals, test>>

\* The handler returns Ok(response) or its own error.
H_return(r) ==
    /\ req[r].pc = "handler"
    /\ \E ok \in BOOLEAN :
         Set(r, [req[r] EXCEPT !.pc = "sm_after",
                               !.status = IF ok THEN 200 ELSE 0,
                               !.from = "handler", !.err = ~ok])
    /\ UNCHANGED <<now, nextUid, nextRef, data, modified, objects, users, arrivals, test>>

Next ==
    \/ Tick
    \/ \E r \in Req : Arrive(r)
    \/ \E u \in UserIds : UserStore_save(u)
    \/ \E r \in Req : SM_call(r)
    \/ \E r \in Req : SM_load(r)
    \/ \E r \in Req : SM_finish(r)
    \/ \E r \in Req : UM_call(r)
    \/ \E r \in Req : UM_load(r)
    \/ \E r \in Req, k \in Keys, rv \in RustValues : H_insert(r, k, rv)
    \/ \E r \in Req, k \in Keys, ty \in Types : H_read(r, k, ty)
    \/ \E r \in Req, k \in Keys, ty \in Types : H_remove(r, k, ty)
    \/ \E r \in Req : H_clear(r)
    \/ \E r \in Req : H_cycle_uid(r)
    \/ \E r \in Req : H_return(r)

Spec == Init /\ [][Next]_vars

\* Requests handled concurrently, each on its own task.  The behaviours start
\* where Spec stands once a first request, sent without a cookie, has been
\* answered: the session created for it is in the Store.
ConcInit ==
    /\ now = 0
    /\ nextUid = 2
    /\ nextRef = 2
    /\ data = (1 :> Session_new_cell.data)
    /\ modified = (1 :> Session_new_cell.modified)
    /\ objects = save(EmptyMap, 1, Session_new(1, 1, 0))
    /\ users = {}
    /\ arrivals = 0
    /\ req = [r \in Req |-> IdleReq]
    /\ test = NoTest

ConcNext ==
    \/ Next
    \/ \E r \in Req : ArriveConcurrent(r)

ConcSpec == ConcInit /\ [][ConcNext]_vars

(***************************************************************************)
(* mod tests: the methods of Session called directly on one Session value, *)
(* as tests::store, tests::cycle_uid and tests::is_modified do.  `test`    *)
(* keeps the Session, the last call, what the Session and the Store were   *)
(* before it (pre) and what the call returned (out).                       *)
(***************************************************************************)
TestKeys == {"user_uid", "u64"}
TestValues == { <<"Uuid", 1>>, <<"Uuid", 2>>, <<"u64", 42>> }

\* What the holder of s observes of it, and the Store and the clock beside it.
Observed(s) == [uid |-> s.uid, expires_at |-> s.expires_at,
                data |-> data[s.ref], modified |-> modified[s.ref], objects |-> objects,
                now |-> now]

Called(op, key, ty, v, s, out) ==
    [session |-> Some(s), op |-> op, key |-> key, ty |-> ty, v |-> v,
     pre |-> IF test.session.some THEN Some(Observed(test.session.val)) ELSE None,
     out |-> out, saved |-> test.saved]

\* The Session value s as it is now: its fields and what its Arcs point to.
Snapshot(s) == [uid |-> s.uid, expires_at |-> s.expires_at,
                data |-> data[s.ref], modified |-> modified[s.ref]]

Unit == [err |-> FALSE, val |-> None]

\* let mut session = Session::new(DEFAULT_EXPIRATION);
T_new ==
    /\ ~test.session.some
    /\ LET s == Session_new(new_v4, nextRef, now)
       IN  /\ nextUid' = nextUid + 1
           /\ nextRef' = nextRef + 1
           /\ data' = data @@ (nextRef :> Session_new_cell.data)
           /\ modified' = modified @@ (nextRef :> Session_new_cell.modified)
           /\ test' = Called("new", "", "", 0, s, Unit)
    /\ UNCHANGED <<now, objects, users, arrivals, req>>

\* session.modified.store(false, Ordering::Release), which only the tests can do
T_store_false ==
    /\ test.session.some
    /\ modified' = [modified EXCEPT ![test.session.val.ref] = FALSE]
    /\ test' = Called("store_false", "", "", 0, test.session.val, Unit)
    /\ UNCHANGED <<now, nextUid, nextRef, data, objects, users, arrivals, req>>

T_insert(key, rv) ==
    /\ test.session.some
    /\ data' = Session_insert(data, test.session.val, key, rv[1], rv[2])
    /\ modified' = [modified EXCEPT ![test.session.val.ref] = TRUE]
    /\ test' = Called("insert", key, rv[1], rv[2], test.session.val, Unit)
    /\ UNCHANGED <<now, nextUid, nextRef, objects, users, arrivals, req>>

T_get_StoresModified(key, ty) ==
    /\ test.session.some
    /\ modified' = [modified EXCEPT ![test.session.val.ref] = TRUE]
    /\ test' = Called("get", key, ty, 0, test.session.val,
                      Session_get(data, test.session.val, key, ty))
    /\ UNCHANGED <<now, nextUid, nextRef, data, objects, users, arrivals, req>>

T_get(key, ty) ==
    /\ test.session.some
    /\ test' = Called("get", key, ty, 0, test.session.val,
                      Session_get(data, test.session.val, key, ty))
    /\ UNCHANGED <<now, nextUid, nextRef, data, modified, objects, users, arrivals, req>>

T_remove(key, ty) ==
    /\ test.session.some
    /\ LET res == Session_remove(data, modified, test.session.val, key, ty)
       IN  /\ data' = res.data
           /\ modified' = res.modified
           /\ test' = Called("remove", key, ty, 0, test.session.val,
                             [err |-> res.err, val |-> res.val])
    /\ UNCHANGED <<now, nextUid, nextRef, objects, users, arrivals, req>>

T_clear ==
    /\ test.session.some
    /\ data' = Session_clear(data, modified, test.session.val).data
    /\ modified' = Session_clear(data, modified, test.session.val).modified
    /\ test' = Called("clear", "", "", 0, test.session.val, Unit)
    /\ UNCHANGED <<now, nextUid, nextRef, objects, users, arrivals, req>>

T_cycle_uid ==
    /\ test.session.some
    /\ test.session.val.uid <= MaxCycles
    /\ nextUid' = nextUid + 1
    /\ modified' = [modified EXCEPT ![test.session.val.ref] = TRUE]
    /\ test' = Called("cycle_uid", "", "", 0, Session_cycle_uid(test.session.val, new_v4),
                      [err |-> FALSE, val |-> Some(test.session.val.uid)])
    /\ UNCHANGED <<now, nextRef, data, objects, users, arrivals, req>>

\* store.save(session.uid(), &session): the Session under test is persisted
T_save ==
    /\ test.session.some
    /\ objects' = save(objects, test.session.val.uid, test.session.val)
    /\ test' = Called("save", "", "", 0, test.session.val, Unit)
    /\ UNCHANGED <<now, nextUid, nextRef, data, modified, users, arrivals, req>>

TestNext ==
    \/ T_new
    \/ T_store_false
    \/ \E k \in TestKeys, rv \in TestValues : T_insert(k, rv)
    \/ \E k \in TestKeys, ty \in Types : T_get(k, ty)
    \/ \E k \in TestKeys, ty \in Types : T_remove(k, ty)
    \/ T_clear
    \/ T_cycle_uid
    \/ T_save

TestSpec == Init /\ [][TestNext]_vars

(***************************************************************************)
(* The Store called directly: a Session is created, changed, saved under   *)
(* its uid, loaded and deleted, while time passes.  `test.saved` keeps the  *)
(* id of the last save and the Session as it was at that moment.           *)
(***************************************************************************)
\* store.save(session.uid(), &session)
S_save ==
    /\ test.session.some
    /\ objects' = save(objects, test.session.val.uid, test.session.val)
    /\ test' = [Called("save", "", "", test.session.val.uid, test.session.val, Unit)
                  EXCEPT !.saved = Some([id |-> test.session.val.uid,
                                         obj |-> Snapshot(test.session.val)])]
    /\ UNCHANGED <<now, nextUid, nextRef, data, modified, users, arrivals, req>>

\* store.load(&id): `out` is what load returns
S_load(id) ==
    /\ test.session.some
    /\ test' = Called("load", "", "", id, test.session.val,
                      [err |-> FALSE, val |-> load(objects, id, now)])
    /\ UNCHANGED <<now, nextUid, nextRef, data, modified, objects, users, arrivals, req>>

\* store.delete(&id)
S_delete(id) ==
    /\ test.session.some
    /\ objects' = delete(objects, id)
    /\ test' = [Called("delete", "", "", id, test.session.val, Unit)
                  EXCEPT !.saved = IF test.saved.some /\ test.saved.val.id = id
                                   THEN None ELSE test.saved]
    /\ UNCHANGED <<now, nextUid, nextRef, data, modified, users, arrivals, req>>

StoreNext ==
    \/ T_new
    \/ \E k \in Keys, rv \in RustValues : T_insert(k, rv)
    \/ T_cycle_uid
    \/ S_save
    \/ \E id \in DOMAIN objects \cup ForgedUids : S_load(id)
    \/ \E id \in DOMAIN objects \cup ForgedUids : S_delete(id)
    \/ Tick

StoreSpec == Init /\ [][StoreNext]_vars

(***************************************************************************)
(*                         Properties of the code                          *)
(***************************************************************************)
\* The downstream stage returned Ok(response) to a SessionManager that holds a jar.
DownstreamOk(q) == q.pc = "done" /\ q.jar /\ q.downstream /\ ~q.err

\* C1 (Scenario C): a request whose cookie resolved to a live record and whose
\* handler made no mutating call ends with no Store.save call and no cookie
\* added to the response.
C1_ReadOnlyHitLeavesNoTrace ==
    \A r \in Req :
        (req[r].pc = "done" /\ req[r].loaded = "found" /\ req[r].handlerCalled
            /\ req[r].nmuts = 0)
        => (req[r].saveCalls = 0 /\ ~req[r].setCookie.some)

\* Scenario A: no session cookie, the downstream stage returned Ok and no
\* mutating call was made on the session.
ScenarioA(q) == DownstreamOk(q) /\ ~q.cookie.some /\ q.nmuts = 0

\* C2 as stated (Scenario A): no Store.save call, no Set-Cookie, and no step of
\* such a request changes the Store.
C2_FreshUntouchedLeavesNoTrace ==
    [][\A r \in Req :
         /\ ScenarioA(req'[r]) => (req'[r].saveCalls = 0 /\ ~req'[r].setCookie.some)
         /\ (req[r].pc = "sm_after" /\ ScenarioA(req'[r])) => objects' = objects]_vars

\* C2 as amended (Scenario A): the fresh session reports modified, so exactly one
\* Store.save call is made, under the fresh id; when it succeeds the response
\* carries the cookie of that id and the Store differs from before only by the
\* record under that id, an empty session.
C2_FreshUntouchedIsSavedOnce ==
    [][\A r \in Req :
         /\ ScenarioA(req'[r]) =>
              /\ req'[r].saveCalls = 1
              /\ req'[r].savedUnder = req'[r].freshUid
              /\ req'[r].saved = "ok" => req'[r].setCookie = Some(UuidToString(req'[r].freshUid.val))
              /\ req'[r].saved = "error" => ~req'[r].setCookie.some
         /\ (req[r].pc = "sm_after" /\ ScenarioA(req'[r]) /\ req'[r].saved = "ok") =>
              LET id == req'[r].freshUid.val
              IN  /\ id \notin DOMAIN objects
                  /\ DOMAIN objects' = DOMAIN objects \cup {id}
                  /\ \A k \in DOMAIN objects : objects'[k] = objects[k]
                  /\ objects'[id].uid = id
                  /\ data'[objects'[id].ref] = EmptyMap
         /\ (req[r].pc = "sm_after" /\ ScenarioA(req'[r]) /\ req'[r].saved = "error") =>
              objects' = objects]_vars

C2_Witness ==
    \E r \in Req : ScenarioA(req[r]) /\ req[r].handlerCalled /\ req[r].saved = "ok"
                   /\ req[r].freshUid.val \in DOMAIN objects

\* C3: when the handler has called cycle_uid and returned Ok, Store.save is
\* called under the session's current (post-cycle) id and the response cookie
\* carries that current id.
C3_SaveUnderCycledId ==
    \A r \in Req :
        (DownstreamOk(req[r]) /\ req[r].handlerCalled /\ req[r].cycled)
        => /\ req[r].saveCalls = 1
           /\ req[r].savedUnder = Some(req[r].ext.val.uid)
           /\ req[r].saved = "ok" => req[r].setCookie = Some(UuidToString(req[r].ext.val.uid))

\* What a holder of the Session value s observes of it.
View(s) == [uid |-> s.uid, expires_at |-> s.expires_at,
            data |-> data[s.ref], modified |-> modified[s.ref]]
ViewNext(s) == [uid |-> s.uid, expires_at |-> s.expires_at,
                data |-> data'[s.ref], modified |-> modified'[s.ref]]

\* C4: session state passes between requests only through Store operations: a
\* step that is no Store.save leaves every stored record as Store.load would
\* return it, and a step taken by one request leaves the Session attached to
\* every other request as it was.
C4_StateSharedOnlyThroughStore ==
    [][ /\ (objects' = objects) =>
             \A id \in DOMAIN objects : ViewNext(objects[id]) = View(objects[id])
        /\ \A q \in Req :
             (req'[q] = req[q] /\ req[q].ext.some /\ req[q].pc # "done")
             => ViewNext(req[q].ext.val) = View(req[q].ext.val) ]_vars

\* C5: whenever SessionManager has invoked its downstream stage, exactly one
\* Session was attached to the request at that moment.
C5_OneSessionAttached ==
    \A r \in Req : req[r].downstream => req[r].attached = 1

\* C6: when Store.load fails with a backend error the request is answered with
\* status 500 by SessionManager, the downstream stage is never invoked, no
\* Store.save call is made and no cookie is set.
C6_LoadErrorIs500 ==
    \A r \in Req :
        req[r].loaded = "error"
        => /\ req[r].pc = "done"
           /\ req[r].status = INTERNAL_SERVER_ERROR
           /\ req[r].from = "SessionManager"
           /\ ~req[r].downstream /\ ~req[r].handlerCalled
           /\ req[r].saveCalls = 0
           /\ ~req[r].setCookie.some

C6_Witness ==
    \E r \in Req : req[r].loaded = "error" /\ req[r].loadCalls = 1 /\ req[r].pc = "done"

\* C7: when the downstream stage returned Ok, the session is modified and
\* Store.save fails, the response is SessionManager's own, with status 500 and
\* no session cookie.
C7_SaveErrorIs500 ==
    \A r \in Req :
        req[r].saved = "error"
        => /\ req[r].pc = "done"
           /\ req[r].status = INTERNAL_SERVER_ERROR
           /\ req[r].from = "SessionManager"
           /\ ~req[r].setCookie.some

C7_Witness ==
    \E r \in Req : req[r].saved = "error" /\ req[r].handlerCalled /\ req[r].nmuts > 0
                   /\ req[r].pc = "done"

\* Scenario B: no session cookie, the handler's only mutating call is one insert,
\* it returns Ok and the save succeeds.
ScenarioB(q) ==
    /\ DownstreamOk(q) /\ ~q.cookie.some /\ q.handlerCalled
    /\ q.nmuts = 1 /\ q.lastMut.op = "insert" /\ q.saved = "ok"

\* C8 (Scenario B): the response cookie is the id generated in this request, an
\* id that was no key of the Store before, and the Store then holds under that
\* id a session whose data is exactly the inserted entry, which Store.load
\* returns (for as long as it is not expired).
C8_InsertedEntryIsStored ==
    [][\A r \in Req :
         (req[r].pc = "sm_after" /\ ScenarioB(req'[r])) =>
            LET id == req'[r].freshUid.val
                m == req'[r].lastMut
                entry == [k \in {m.key} |-> to_value(m.ty, m.v)]
                got == load(objects', id, now')
            IN  /\ req'[r].setCookie = Some(UuidToString(id))
                /\ id \notin DOMAIN objects
                /\ id \in DOMAIN objects'
                /\ data'[objects'[id].ref] = entry
                /\ ~(objects'[id].expires_at < now') =>
                      (got.some /\ got.val.uid = id /\ data'[got.val.ref] = entry)]_vars

C8_Witness ==
    \E r \in Req :
        /\ ScenarioB(req[r])
        /\ load(objects, req[r].freshUid.val, now).some
        /\ DOMAIN data[objects[req[r].freshUid.val].ref] = {req[r].lastMut.key}

\* The record the Store holds under id, with what its Arcs point to.
Record(objs, d, mod, id) ==
    IF id \in DOMAIN objs
    THEN Some([uid |-> objs[id].uid, expires_at |-> objs[id].expires_at,
               data |-> d[objs[id].ref], modified |-> mod[objs[id].ref]])
    ELSE None

\* C9 (Scenario D): when the cookie id resolves to no record or to an expired
\* one, the session attached is a fresh one, with empty data and an id other
\* than the cookie's; and no step of such a request deletes or changes the
\* record stored under the cookie's id.
C9_StaleCookieGetsFreshSession ==
    [][\A r \in Req :
         LET id == ParseUuid(req[r].cookie.val).val
             stale == id \notin DOMAIN objects \/ objects[id].expires_at < now
         IN  /\ (req[r].pc = "sm_load" /\ req'[r].loaded # "error" /\ req'[r] # req[r] /\ stale)
                  => /\ req'[r].loaded = "missing"
                     /\ req'[r].downstream /\ req'[r].attached = 1
                     /\ req'[r].ext.val.uid # id
                     /\ req'[r].ext.val.ref \notin DOMAIN data
                     /\ data'[req'[r].ext.val.ref] = EmptyMap
             /\ (req[r].pc # "done" /\ req'[r].loaded = "missing")
                  => Record(objects', data', modified', id) = Record(objects, data, modified, id)
      ]_vars

C9_Witness ==
    \E r \in Req :
        /\ req[r].loaded = "missing" /\ req[r].pc = "done" /\ req[r].saved = "ok"
        /\ req[r].nmuts > 0
        /\ ParseUuid(req[r].cookie.val).val \in DOMAIN objects

\* C10: a cookie value that does not parse as a uuid is handled like no cookie:
\* Store.load is not called, a fresh session is attached, the downstream stage
\* is invoked, and SessionManager answers 500 only for a failed save.
Unparseable(q) == q.jar /\ q.cookie.some /\ ~ParseUuid(q.cookie.val).some

C10_UnparseableCookieIsNoCookie ==
    \A r \in Req :
        Unparseable(req[r])
        => /\ req[r].loadCalls = 0 /\ req[r].loaded = "none"
           /\ req[r].pc # "sm_call" =>
                 /\ req[r].downstream /\ req[r].attached = 1
                 /\ req[r].freshUid.some
                 /\ req[r].session.val.uid = req[r].freshUid.val
                 /\ (req[r].nmuts = 0 => data[req[r].ext.val.ref] = EmptyMap)
           /\ (req[r].status = INTERNAL_SERVER_ERROR /\ req[r].from = "SessionManager")
                 => req[r].saved = "error"

C10_Witness ==
    \E r \in Req : Unparseable(req[r]) /\ req[r].pc = "done" /\ req[r].handlerCalled
                   /\ req[r].status = 200 /\ req[r].saved = "ok"

\* C11: within one request Store.load is called at most once and only while the
\* downstream stage has not been invoked; Store.save is called at most once, only
\* once the downstream stage has returned Ok and only for a session that reports
\* modified; an error of the downstream stage is passed through with no
\* Store.save; and a Store call that failed is the request's last one.
C11_LoadAndSaveAtMostOnce ==
    \A r \in Req :
        /\ req[r].loadCalls <= 1 /\ req[r].saveCalls <= 1
        /\ req[r].pc \in {"idle", "sm_call", "sm_load"} =>
              (req[r].loadCalls = 0 /\ ~req[r].downstream)
        /\ req[r].pc # "done" => req[r].saveCalls = 0
        /\ (req[r].loadCalls = 0) <=> (req[r].loaded = "none")
        /\ (req[r].saveCalls = 0) <=> (req[r].saved = "none")
        /\ req[r].saveCalls = 1 =>
              /\ req[r].downstream /\ ~req[r].bypass /\ ~req[r].err
              /\ req[r].from \in {"handler", "UserManager", "SessionManager"}
              /\ is_modified(modified, req[r].session.val)
        /\ (req[r].pc = "done" /\ req[r].err) =>
              /\ req[r].saveCalls = 0 /\ ~req[r].setCookie.some
              /\ req[r].from = "handler" /\ req[r].status = 0
        /\ req[r].loaded = "error" => (req[r].pc = "done" /\ req[r].loadCalls = 1)
        /\ req[r].saved = "error" => (req[r].pc = "done" /\ req[r].saveCalls = 1)

C11_Witness ==
    \E r \in Req :
        /\ req[r].pc = "done" /\ req[r].loaded = "found" /\ req[r].loadCalls = 1
        /\ req[r].handlerCalled /\ req[r].err /\ req[r].nmuts > 0
        /\ req[r].saveCalls = 0

\* C12: SessionManager adds the session cookie only in a request whose
\* Store.save succeeded, the cookie's value is the string form of the id that
\* save was made under, and it adds at most one cookie per request.
C12_CookieOnlyAfterSave ==
    \A r \in Req :
        /\ req[r].cookieAdds <= 1
        /\ (req[r].cookieAdds = 1) <=> req[r].setCookie.some
        /\ req[r].setCookie.some =>
              /\ req[r].saved = "ok" /\ req[r].saveCalls = 1
              /\ req[r].setCookie.val = UuidToString(req[r].savedUnder.val)
              /\ ParseUuid(req[r].setCookie.val) = req[r].savedUnder
        /\ (req[r].pc = "done" /\ req[r].saved # "ok") => ~req[r].setCookie.some

C12_Witness ==
    \E r \in Req :
        /\ req[r].pc = "done" /\ req[r].saved = "ok" /\ req[r].cookieAdds = 1
        /\ req[r].loaded = "found" /\ req[r].cookie = req[r].setCookie

\* UserManager::call has run for the request, up to store.load at least.
ThroughUserManager(q) == q.stack = "UserManagerLayer" /\ q.umGet # "none"

\* C13: UserManager invokes its downstream stage only when a Session is
\* attached, its "user_uid" entry is present and decodes, and the user Store
\* returned a user for that id, which it attaches; with no Session attached,
\* with "user_uid" absent, and with an id the user Store does not hold, it
\* answers 401 and does not invoke downstream.
C13_DownstreamOnlyForResolvedUser ==
    \A r \in Req :
        ThroughUserManager(req[r]) =>
          /\ req[r].handlerCalled =>
                /\ req[r].ext.some /\ req[r].attached = 1
                /\ req[r].umGet = "some" /\ req[r].umLoad = "found"
                /\ req[r].user_uid.some /\ req[r].user = req[r].user_uid
                /\ req[r].user.val \in users
                /\ req[r].nmuts = 0 =>
                      Session_get(data, req[r].ext.val, "user_uid", "Uuid")
                          = [err |-> FALSE, val |-> req[r].user]
          /\ ~req[r].ext.some => req[r].umGet = "no_session"
          /\ (req[r].ext.some /\ "user_uid" \notin DOMAIN data[req[r].ext.val.ref]
                /\ req[r].nmuts = 0) => req[r].umGet = "absent"
          /\ (req[r].umGet \in {"no_session", "absent"} \/ req[r].umLoad = "missing") =>
                /\ ~req[r].handlerCalled /\ ~req[r].user.some
                /\ req[r].pc = "sm_after" =>
                      (req[r].status = UNAUTHORIZED /\ req[r].from = "UserManager")
                /\ req[r].from = "UserManager" => req[r].status = UNAUTHORIZED

C13_Witness ==
    \E r \in Req :
        /\ ThroughUserManager(req[r]) /\ req[r].umLoad = "missing"
        /\ req[r].user_uid.some /\ req[r].user_uid.val \notin users
        /\ req[r].pc = "sm_after" /\ req[r].status = UNAUTHORIZED

\* C14: UserManager answers 500, without invoking downstream, exactly when
\* reading "user_uid" fails to decode or the user Store fails; every other
\* response of its own is a 401; and when it invokes downstream the result it
\* returns is the downstream one.
C14_UserManagerErrorStatus ==
    \A r \in Req :
        ThroughUserManager(req[r]) =>
          /\ req[r].pc = "sm_after" =>
                ((req[r].umGet = "error" \/ req[r].umLoad = "error") <=>
                 (req[r].from = "UserManager" /\ req[r].status = INTERNAL_SERVER_ERROR))
          /\ (req[r].umGet = "error" \/ req[r].umLoad = "error") => ~req[r].handlerCalled
          /\ req[r].umGet = "error" =>
                /\ "user_uid" \in DOMAIN data[req[r].ext.val.ref]
                /\ ~from_value("Uuid", data[req[r].ext.val.ref]["user_uid"]).some
          /\ req[r].from = "UserManager" =>
                /\ req[r].status = (IF req[r].umGet = "error" \/ req[r].umLoad = "error"
                                    THEN INTERNAL_SERVER_ERROR ELSE UNAUTHORIZED)
                /\ ~req[r].handlerCalled
          /\ req[r].pc = "sm_after" =>
                IF req[r].handlerCalled
                THEN /\ req[r].from = "handler"
                     /\ req[r].status = (IF req[r].err THEN 0 ELSE 200)
                ELSE req[r].from = "UserManager" /\ ~req[r].err

C14_Witness ==
    \E r \in Req :
        /\ ThroughUserManager(req[r]) /\ req[r].umGet = "error"
        /\ req[r].pc = "sm_after" /\ req[r].status = INTERNAL_SERVER_ERROR

\* The Session under test as it is now, after the last call.
TestSession == test.session.val
TestData == data[test.session.val.ref]
TestModified == modified[test.session.val.ref]

\* C15: remove(key) on an absent key returns Ok(None) and leaves the data and
\* is_modified() as they were; on a present key it returns the stored value,
\* the entry is gone and is_modified() is true.
C15_RemoveReturnsStoredValue ==
    test.op = "remove" =>
        IF test.key \notin DOMAIN test.pre.val.data
        THEN /\ test.out = [err |-> FALSE, val |-> None]
             /\ TestData = test.pre.val.data
             /\ TestModified = test.pre.val.modified
        ELSE /\ ~test.out.err /\ test.out.val.some
             /\ to_value(test.ty, test.out.val.val) = test.pre.val.data[test.key]
             /\ TestData = MapRemove(test.pre.val.data, test.key)
             /\ TestModified

\* C16: get(key) changes nothing: is_modified(), the data, the uid and
\* expires_at are after the call what they were before it, for a key that is
\* absent, present and decodable, or present and not decodable.
C16_GetChangesNothing ==
    test.op = "get" => Observed(TestSession) = test.pre.val

C16_Witness ==
    /\ test.op = "get" /\ ~test.pre.val.modified
    /\ test.key \in DOMAIN test.pre.val.data /\ test.out.err

\* C17: the Session that new() returns has empty data and reports modified.
C17_NewIsEmptyAndModified ==
    test.op = "new" => (TestData = EmptyMap /\ TestModified)

C17_Witness == test.op = "new" /\ test.session.some /\ ~test.pre.some

\* C18: after clear() the data is empty and is_modified() is true, whatever
\* they were before.
C18_ClearEmptiesAndFlags ==
    test.op = "clear" => (TestData = EmptyMap /\ TestModified)

C18_Witness ==
    test.op = "clear" /\ test.pre.val.data = EmptyMap /\ ~test.pre.val.modified

\* C19: cycle_uid() returns the uid the session had, leaves it with another
\* uid and with is_modified() true, leaves the data and expires_at alone, and
\* leaves the Store as it was, the record under the old uid included.
C19_CycleUidReturnsOldUid ==
    test.op = "cycle_uid" =>
        /\ test.out.val = Some(test.pre.val.uid)
        /\ TestSession.uid # test.pre.val.uid
        /\ TestModified
        /\ TestData = test.pre.val.data
        /\ TestSession.expires_at = test.pre.val.expires_at
        /\ objects = test.pre.val.objects
        /\ test.pre.val.uid \in DOMAIN test.pre.val.objects =>
              (/\ test.pre.val.uid \in DOMAIN objects
               /\ objects[test.pre.val.uid].uid = test.pre.val.uid
               /\ TestSession.uid \notin DOMAIN objects)

C19_Witness ==
    /\ test.op = "cycle_uid" /\ ~test.pre.val.modified
    /\ test.pre.val.uid \in DOMAIN objects /\ test.pre.val.data # EmptyMap

\* C20: after insert(key, value), get(key) of the value's type returns that
\* value; the map has the keys it had and `key`, once, the other entries being
\* as they were; and is_modified() is true.
C20_InsertThenGet ==
    test.op = "insert" =>
        /\ Session_get(data, TestSession, test.key, test.ty)
              = [err |-> FALSE, val |-> Some(test.v)]
        /\ DOMAIN TestData = DOMAIN test.pre.val.data \cup {test.key}
        /\ Cardinality(DOMAIN TestData) =
              Cardinality(DOMAIN test.pre.val.data)
                  + (IF test.key \in DOMAIN test.pre.val.data THEN 0 ELSE 1)
        /\ \A k \in DOMAIN test.pre.val.data \ {test.key} : TestData[k] = test.pre.val.data[k]
        /\ TestModified

C20_Witness ==
    /\ test.op = "insert" /\ ~test.pre.val.modified
    /\ test.key \in DOMAIN test.pre.val.data
    /\ test.pre.val.data[test.key] # TestData[test.key]
    /\ Cardinality(DOMAIN TestData) = 2

\* C21: after save(id, obj), load(id) of the unexpired record returns an object
\* equal to obj as it was when it was saved, whether the save created the record
\* or overwrote one.
C21_LoadReturnsWhatWasSaved ==
    (test.op = "load" /\ test.saved.some /\ test.v = test.saved.val.id
        /\ ~(test.saved.val.obj.expires_at < test.pre.val.now))
    => /\ test.out.val.some
       /\ Snapshot(test.out.val.val) = test.saved.val.obj

\* C22: load(id) returns None for a stored Session whose expires_at has passed
\* and the record for one whose expires_at has not; it returns None for an id
\* that is no key; and it leaves the Store as it was, the expired record
\* included, which is gone only once delete(id) was called.
C22_LoadHidesExpiredRecords ==
    /\ test.op = "load" =>
          LET id == test.v
              objs == test.pre.val.objects
              t == test.pre.val.now
          IN  /\ objects = objs
              /\ [Observed(TestSession) EXCEPT !.now = t] = test.pre.val
              /\ id \notin DOMAIN objs => test.out = [err |-> FALSE, val |-> None]
              /\ (id \in DOMAIN objs /\ t > objs[id].expires_at) =>
                    test.out = [err |-> FALSE, val |-> None]
              /\ (id \in DOMAIN objs /\ t <= objs[id].expires_at) =>
                    test.out = [err |-> FALSE, val |-> Some(objs[id])]
    /\ test.op = "delete" =>
          /\ DOMAIN objects = DOMAIN test.pre.val.objects \ {test.v}
          /\ \A k \in DOMAIN objects : objects[k] = test.pre.val.objects[k]

C22_Witness ==
    /\ test.op = "load" /\ test.v \in DOMAIN objects
    /\ objects[test.v].expires_at < test.pre.val.now
    /\ ~test.out.val.some

\* The calls that are operations of Session (store_false is the tests' own
\* write to the private field).
SessionOps == {"insert", "get", "remove", "clear", "cycle_uid"}

\* C23: a Session operation that leaves is_modified() false has left the data
\* and the uid as they were, so whenever they differ from what they were when
\* the flag was last false the flag is true; and a remove that fails to decode
\* has left the entry in place or set the flag.
C23_ChangeImpliesModified ==
    test.op \in SessionOps =>
        /\ ~TestModified =>
              (TestData = test.pre.val.data /\ TestSession.uid = test.pre.val.uid)
        /\ (test.op = "remove" /\ test.out.err) =>
              (test.key \in DOMAIN TestData \/ TestModified)

\* The Session values the program holds: the records of the Store, and each
\* request's own copy and the copy in its extensions.
Held ==
    { objects[id] : id \in DOMAIN objects }
        \cup { req[r].session.val : r \in { q \in Req : req[q].session.some } }
        \cup { req[r].ext.val : r \in { q \in Req : req[q].ext.some } }

\* C24: the modified flag is never reset: every Session is created with the
\* flag true, so every Session held by a request or by the Store, saved and
\* loaded copies included, reports is_modified() at every moment.
C24_ModifiedNeverReset ==
    /\ \A ref \in DOMAIN modified : modified[ref]
    /\ \A s \in Held : s.ref \in DOMAIN modified /\ is_modified(modified, s)

C24_Witness ==
    \E r \in Req :
        /\ req[r].loaded = "found" /\ req[r].pc = "sm_after" /\ req[r].nmuts = 0
        /\ req[r].session.val.ref = objects[req[r].session.val.uid].ref
        /\ is_modified(modified, req[r].session.val)

\* C25: Store.save is made under the id of the request cookie only when
\* Store.load of that id returned a live record in the same request; a cookie
\* value that does not parse, or whose id is no key of the Store or is the key
\* of an expired record, is neither the key of the save nor the value of the
\* response cookie, and an id only the client made up is never a key of the Store.
C25_ClientIdNeverAdopted ==
    /\ \A r \in Req :
          req[r].cookie.some =>
              LET c == req[r].cookie.val
                  id == ParseUuid(c)
              IN  /\ (id.some /\ req[r].savedUnder = id) =>
                        (req[r].loaded = "found" /\ req[r].loadCalls = 1)
                  /\ req[r].setCookie = Some(c) => req[r].loaded = "found"
                  /\ (req[r].loaded # "found" /\ req[r].session.some /\ id.some) =>
                        (req[r].session.val.uid # id.val /\ req[r].ext.val.uid # id.val)
                  /\ ~id.some => (req[r].loadCalls = 0 /\ req[r].setCookie # Some(c))
    /\ \A u \in ForgedUids : u \notin DOMAIN objects

C25_Witness ==
    \E r \in Req :
        /\ req[r].cookie.some /\ ParseUuid(req[r].cookie.val).some
        /\ ParseUuid(req[r].cookie.val).val \in ForgedUids
        /\ req[r].loaded = "missing" /\ req[r].saved = "ok" /\ req[r].setCookie.some

\* C26: expires_at is fixed when the Session is created: no step changes the
\* expires_at of a stored record, re-saving included, nor that of the Session a
\* request holds; the Session a request loads has the expires_at of the
\* record; and once that time has passed Store.load of the id returns None,
\* after every later step too.
C26_ExpiresAtIsFixed ==
    [][ /\ \A id \in DOMAIN objects :
              /\ id \in DOMAIN objects'
              /\ objects'[id].expires_at = objects[id].expires_at
              /\ objects[id].expires_at < now => ~load(objects', id, now').some
        /\ \A r \in Req :
              /\ (req[r].session.some /\ req'[r].session.some) =>
                    /\ req'[r].session.val.expires_at = req[r].session.val.expires_at
                    /\ req'[r].ext.val.expires_at = req[r].session.val.expires_at
              /\ (~req[r].session.some /\ req'[r].session.some /\ req'[r].loaded = "found") =>
                    req'[r].session.val.expires_at =
                        objects[req'[r].session.val.uid].expires_at
      ]_vars

C26_Witness ==
    \E r \in Req :
        /\ req[r].loaded = "found" /\ req[r].saved = "ok" /\ req[r].pc = "done"
        /\ objects[req[r].savedUnder.val].expires_at < now
        /\ ~load(objects, req[r].savedUnder.val, now).some
====
